---- MODULE Spec2Model ----
(***************************************************************************)
(* Model of cspdk: the component-model catalog (cspdk/models.py) and the   *)
(* technology description (cspdk/tech.py).                                 *)
(*                                                                         *)
(* Numbers.  Every physical quantity of the source is a float literal with *)
(* at most three decimals (1.55, 0.45, 0.03, 35 * nm ...).  The model keeps *)
(* them as integers in units of 1e-3 (so nm = 1e-3 is 1, 1.55 is 1550).     *)
(* Amplitudes of the S-dictionaries are elements of Z[i] / sqrt(2)^h, kept *)
(* exactly as records [re, im, h]; squared magnitudes are exact rationals. *)
(***************************************************************************)
EXTENDS Integers, Sequences, FiniteSets, TLC

VARIABLES pc, args, ret

vars == <<pc, args, ret>>

(***************************************************************************)
(* Bounds of the model.                                                    *)
(***************************************************************************)
\* longest "sections" list of a cross-section dict given to the classifier
MaxSections == 2
\* longest wavelength array given to a pass-through model
MaxWlLen == 2

(***************************************************************************)
(* Python values: a call either returns a value or raises.                 *)
(***************************************************************************)
Return(v) == [kind |-> "return", exc |-> "", val |-> v]

Raise(e, m) == [kind |-> "raise", exc |-> e, val |-> m]

\* functools.partial(fn, **kw)
partial(fn, kw) == [fn |-> fn, kw |-> kw]

\* calling a partial: the call's keywords are merged over the bound ones
Call(p, kwargs) == [fn |-> p.fn, kw |-> kwargs @@ p.kw]

\* models.py:12 / tech.py:12, nm = 1e-3, in units of 1e-3
nm == 1

(***************************************************************************)
(* tech.py: layer map                                                      *)
(***************************************************************************)
LAYER ==
    [WG |-> <<3, 0>>, SLAB |-> <<5, 0>>, FLOORPLAN |-> <<99, 0>>,
     HEATER |-> <<39, 0>>, GRA |-> <<6, 0>>, LBL |-> <<100, 0>>,
     PAD |-> <<41, 0>>, NITRIDE |-> <<203, 0>>, NITRIDE_ETCH |-> <<204, 0>>]


(***************************************************************************)
(* models.py: pass-through models                                          *)
(***************************************************************************)
\* jnp.asarray(wl): the wavelength as an array (a scalar is an array of one)
asarray(wl) == wl

\* jnp.ones_like(wl): an array of wl's shape holding the amplitude 1
ones_like(wl) == [i \in DOMAIN wl |-> [re |-> 1, im |-> 0, h |-> 0]]

\* array / jnp.sqrt(2), elementwise: (re + i im) / sqrt(2)^(h+1)
div_sqrt2(a) == [i \in DOMAIN a |-> [a[i] EXCEPT !.h = @ + 1]]

\* 1j * array, elementwise: i (re + i im) = -im + i re
mul_1j(a) == [i \in DOMAIN a |-> [a[i] EXCEPT !.re = -a[i].im, !.im = a[i].re]]

\* a Python dict display {k1: v1, k2: v2, ...}: of equal keys the last one wins
dict_display(items) ==
    [k \in {items[i][1] : i \in DOMAIN items} |->
        LET last == CHOOSE i \in DOMAIN items :
                        /\ items[i][1] = k
                        /\ \A j \in DOMAIN items : items[j][1] = k => j <= i
        IN  items[last][2]]

\* sax.reciprocal(sdict) = {**sdict, **{(p2, p1): v for (p1, p2), v in sdict.items()}}
reciprocal_no_reverse(sdict) == sdict

reciprocal(sdict) ==
    [k \in DOMAIN sdict \cup {<<q[2], q[1]>> : q \in DOMAIN sdict} |->
        IF <<k[2], k[1]>> \in DOMAIN sdict THEN sdict[<<k[2], k[1]>>] ELSE sdict[k]]

_2port(p1, p2, wl) ==
    LET w == asarray(wl)
    IN  reciprocal(dict_display(<< <<<<p1, p2>>, ones_like(w)>> >>))

_3port(p1, p2, p3, wl) ==
    LET w == asarray(wl)
        thru == div_sqrt2(ones_like(w))
    IN  reciprocal(dict_display(<< <<<<p1, p2>>, thru>>,
                                   <<<<p1, p3>>, thru>> >>))

_4port_unnormalised(p1, p2, p3, p4, wl) ==
    LET w == asarray(wl)
        thru == ones_like(w)
        cross == mul_1j(thru)
    IN  reciprocal(dict_display(<< <<<<p1, p4>>, thru>>,
                                   <<<<p2, p3>>, thru>>,
                                   <<<<p1, p3>>, cross>>,
                                   <<<<p2, p4>>, cross>> >>))

_4port(p1, p2, p3, p4, wl) ==
    LET w == asarray(wl)
        thru == div_sqrt2(ones_like(w))
        cross == mul_1j(thru)
    IN  reciprocal(dict_display(<< <<<<p1, p4>>, thru>>,
                                   <<<<p2, p3>>, thru>>,
                                   <<<<p1, p3>>, cross>>,
                                   <<<<p2, p4>>, cross>> >>))

_crossing(wl) ==
    LET w == asarray(wl)
        one == ones_like(w)
    IN  reciprocal(dict_display(<< <<<<"o1", "o3">>, one>>,
                                   <<<<"o2", "o4">>, one>> >>))

(***************************************************************************)
(* models.py: waveguides                                                   *)
(***************************************************************************)
straight_sc == partial("straight", [wl0 |-> 1550, neff |-> 2400, ng |-> 4200])

straight_so_wrong_band == partial("straight", [wl0 |-> 1550, neff |-> 2400, ng |-> 4200])

straight_so == partial("straight", [wl0 |-> 1310, neff |-> 2400, ng |-> 4200])

straight_rc == partial("straight", [wl0 |-> 1550, neff |-> 2400, ng |-> 4200])

straight_ro == partial("straight", [wl0 |-> 1310, neff |-> 2400, ng |-> 4200])

straight_nc == partial("straight", [wl0 |-> 1550, neff |-> 2400, ng |-> 4200])

straight_no == partial("straight", [wl0 |-> 1310, neff |-> 2400, ng |-> 4200])

\* int(x) of a layer number; layer numbers are Python ints (Layer = tuple[int, int])
int(x) == x

_layer_eq_first_only(layer1, layer2) == int(layer1[1]) = int(layer2[1])

_layer_eq(layer1, layer2) ==
    (int(layer1[1]) = int(layer2[1])) /\ (int(layer1[2]) = int(layer2[2]))

\* A cross_section argument is a str or a dict:
\*   [isstr |-> TRUE,  str |-> name, sections |-> <<>>]
\*   [isstr |-> FALSE, str |-> "",   sections |-> << [layer, width], ... >>]
_check_cross_section_ge1(cross_section) ==
    IF cross_section.isstr
    THEN Return(cross_section.str)
    ELSE
    LET err == Raise("ValueError", "Unknown cross section")
        sections == cross_section.sections
    IN  IF _layer_eq(sections[1].layer, LAYER.WG)
        THEN IF Len(sections) >= 1
             THEN IF sections[1].width = 450 THEN Return("xs_rc")
                  ELSE IF sections[1].width = 400 THEN Return("xs_ro")
                  ELSE err
             ELSE IF sections[1].width = 450 THEN Return("xs_sc")
             ELSE IF sections[1].width = 400 THEN Return("xs_so")
             ELSE err
        ELSE IF _layer_eq(sections[1].layer, LAYER.NITRIDE)
        THEN IF sections[1].width = 1200 THEN Return("xs_nc")
             ELSE IF sections[1].width = 950 THEN Return("xs_no")
             ELSE err
        ELSE err

_check_cross_section(cross_section) ==
    IF cross_section.isstr
    THEN Return(cross_section.str)
    ELSE
    LET err == Raise("ValueError", "Unknown cross section")
        sections == cross_section.sections
    IN  IF _layer_eq(sections[1].layer, LAYER.WG)
        THEN IF Len(sections) > 1
             THEN IF sections[1].width = 450 THEN Return("xs_rc")
                  ELSE IF sections[1].width = 400 THEN Return("xs_ro")
                  ELSE err
             ELSE IF sections[1].width = 450 THEN Return("xs_sc")
             ELSE IF sections[1].width = 400 THEN Return("xs_so")
             ELSE err
        ELSE IF _layer_eq(sections[1].layer, LAYER.NITRIDE)
        THEN IF sections[1].width = 1200 THEN Return("xs_nc")
             ELSE IF sections[1].width = 950 THEN Return("xs_no")
             ELSE err
        ELSE err

\* The function that "def _straight" defines (models.py:110-137), before its
\* decorator: each test of the if/elif chain calls the classifier again; a raise
\* of the classifier leaves the function at the first test.
_straight_fun(wl, length, loss, cross_section) ==
    LET kwargs == [wl |-> wl, length |-> length, loss |-> loss]
        c == _check_cross_section(cross_section)
    IN  IF c.kind = "raise" THEN c
        ELSE IF c.val = "xs_sc" THEN Return(Call(straight_sc, kwargs))
        ELSE IF c.val = "xs_so" THEN Return(Call(straight_so, kwargs))
        ELSE IF c.val = "xs_rc" THEN Return(Call(straight_rc, kwargs))
        ELSE IF c.val = "xs_ro" THEN Return(Call(straight_ro, kwargs))
        ELSE IF c.val = "xs_nc" THEN Return(Call(straight_nc, kwargs))
        ELSE IF c.val = "xs_no" THEN Return(Call(straight_no, kwargs))
        ELSE Raise("ValueError", "Invalid cross section")

\* hash(x) succeeds: a str is hashable, a dict is not
is_hashable(cross_section) == cross_section.isstr

\* The name _straight is bound to the decorated function,
\*   partial(jax.jit, static_argnames=["cross_section"])(_straight).
\* jax.jit needs every static argument hashable and raises ValueError
\* ("Non-hashable static arguments are used in a jit function with
\* static_argnames ...") before the function is traced; a hashable one is handed
\* to the function as it is.
_straight(wl, length, loss, cross_section) ==
    IF ~is_hashable(cross_section)
    THEN Raise("ValueError", "Non-hashable static arguments")
    ELSE _straight_fun(wl, length, loss, cross_section)

\* a plain (not partial) function as a catalog entry
function(name) == [fn |-> name, kw |-> <<>>]

_bend_euler == partial("bend", [loss |-> 30])

bend_sc == partial("bend", [loss |-> 30])

bend_so == partial("bend", [loss |-> 30])

bend_rc == partial("bend", [loss |-> 30])

bend_ro == partial("bend", [loss |-> 30])

bend_nc == partial("bend", [loss |-> 30])

bend_no == partial("bend", [loss |-> 30])

(***************************************************************************)
(* models.py: transitions, MMIs, grating couplers, crossings, dummies      *)
(***************************************************************************)
\* _2port("o1", "o2") etc.: the closure a factory returns, awaiting wl
closure(name, ports) == [fn |-> name, kw |-> [ports |-> ports]]

trans_sc_rc10 == closure("_2port", <<"o1", "o2">>)

trans_sc_rc20 == closure("_2port", <<"o1", "o2">>)

trans_sc_rc50 == closure("_2port", <<"o1", "o2">>)

coupler == function("coupler")

mmi1x2_rc == coupler

mmi2x2_rc == coupler

mmi1x2_sc == coupler

mmi2x2_sc == coupler

mmi1x2_ro == coupler

mmi2x2_ro == coupler

mmi1x2_so == coupler

mmi2x2_so == coupler

mmi1x2_no == coupler

mmi2x2_no == coupler

mmi1x2_nc == coupler

mmi2x2_nc == coupler

_gco == partial("grating_coupler", [loss |-> 6000, bandwidth |-> 35 * nm, wl0 |-> 1310])

_gcc == partial("grating_coupler", [loss |-> 6000, bandwidth |-> 35 * nm, wl0 |-> 1550])

gc_rectangular_so == _gco

gc_rectangular_ro == _gco

gc_rectangular_no == _gco

gc_rectangular_sc == _gcc

gc_rectangular_rc == _gcc

gc_rectangular_nc == _gcc

crossing_so == function("_crossing")

crossing_rc == function("_crossing")

crossing_sc == function("_crossing")

pad == closure("_2port", <<"o1", "o2">>)

heater == closure("_2port", <<"o1", "o2">>)

models_without_crossing_rc ==
    "_2port" :> closure("_2port", <<"o1", "o2">>) @@
    "_3port" :> closure("_3port", <<"o1", "o2", "o3">>) @@
    "_4port" :> closure("_4port", <<"o1", "o2", "o3", "o4">>) @@
    "straight" :> function("_straight") @@
    "straight_sc" :> straight_sc @@
    "straight_so" :> straight_so @@
    "straight_rc" :> straight_rc @@
    "straight_ro" :> straight_ro @@
    "straight_nc" :> straight_nc @@
    "straight_no" :> straight_no @@
    "bend_euler" :> _bend_euler @@
    "bend_sc" :> bend_sc @@
    "bend_so" :> bend_so @@
    "bend_rc" :> bend_rc @@
    "bend_ro" :> bend_ro @@
    "bend_nc" :> bend_nc @@
    "bend_no" :> bend_no @@
    "trans_sc_rc10" :> trans_sc_rc10 @@
    "trans_sc_rc20" :> trans_sc_rc20 @@
    "trans_sc_rc50" :> trans_sc_rc50 @@
    "mmi1x2_rc" :> mmi1x2_rc @@
    "mmi2x2_rc" :> mmi2x2_rc @@
    "mmi1x2_sc" :> mmi1x2_sc @@
    "mmi2x2_sc" :> mmi2x2_sc @@
    "mmi1x2_ro" :> mmi1x2_ro @@
    "mmi2x2_ro" :> mmi2x2_ro @@
    "mmi1x2_so" :> mmi1x2_so @@
    "mmi2x2_so" :> mmi2x2_so @@
    "mmi1x2_no" :> mmi1x2_no @@
    "mmi2x2_no" :> mmi2x2_no @@
    "mmi1x2_nc" :> mmi1x2_nc @@
    "mmi2x2_nc" :> mmi2x2_nc @@
    "gc_rectangular_so" :> gc_rectangular_so @@
    "gc_rectangular_ro" :> gc_rectangular_ro @@
    "gc_rectangular_no" :> gc_rectangular_no @@
    "gc_rectangular_sc" :> gc_rectangular_sc @@
    "gc_rectangular_rc" :> gc_rectangular_rc @@
    "gc_rectangular_nc" :> gc_rectangular_nc @@
    "crossing_so" :> crossing_so @@
    "crossing_sc" :> crossing_sc @@
    "pad" :> pad @@
    "heater" :> heater

models ==
    "_2port" :> closure("_2port", <<"o1", "o2">>) @@
    "_3port" :> closure("_3port", <<"o1", "o2", "o3">>) @@
    "_4port" :> closure("_4port", <<"o1", "o2", "o3", "o4">>) @@
    "straight" :> function("_straight") @@
    "straight_sc" :> straight_sc @@
    "straight_so" :> straight_so @@
    "straight_rc" :> straight_rc @@
    "straight_ro" :> straight_ro @@
    "straight_nc" :> straight_nc @@
    "straight_no" :> straight_no @@
    "bend_euler" :> _bend_euler @@
    "bend_sc" :> bend_sc @@
    "bend_so" :> bend_so @@
    "bend_rc" :> bend_rc @@
    "bend_ro" :> bend_ro @@
    "bend_nc" :> bend_nc @@
    "bend_no" :> bend_no @@
    "trans_sc_rc10" :> trans_sc_rc10 @@
    "trans_sc_rc20" :> trans_sc_rc20 @@
    "trans_sc_rc50" :> trans_sc_rc50 @@
    "mmi1x2_rc" :> mmi1x2_rc @@
    "mmi2x2_rc" :> mmi2x2_rc @@
    "mmi1x2_sc" :> mmi1x2_sc @@
    "mmi2x2_sc" :> mmi2x2_sc @@
    "mmi1x2_ro" :> mmi1x2_ro @@
    "mmi2x2_ro" :> mmi2x2_ro @@
    "mmi1x2_so" :> mmi1x2_so @@
    "mmi2x2_so" :> mmi2x2_so @@
    "mmi1x2_no" :> mmi1x2_no @@
    "mmi2x2_no" :> mmi2x2_no @@
    "mmi1x2_nc" :> mmi1x2_nc @@
    "mmi2x2_nc" :> mmi2x2_nc @@
    "gc_rectangular_so" :> gc_rectangular_so @@
    "gc_rectangular_ro" :> gc_rectangular_ro @@
    "gc_rectangular_no" :> gc_rectangular_no @@
    "gc_rectangular_sc" :> gc_rectangular_sc @@
    "gc_rectangular_rc" :> gc_rectangular_rc @@
    "gc_rectangular_nc" :> gc_rectangular_nc @@
    "crossing_so" :> crossing_so @@
    "crossing_rc" :> crossing_rc @@
    "crossing_sc" :> crossing_sc @@
    "pad" :> pad @@
    "heater" :> heater

\* models[key], as sax.circuit looks a component's model up
getitem(d, key) ==
    IF key \in DOMAIN d THEN Return(d[key]) ELSE Raise("KeyError", key)

(***************************************************************************)
(* tech.py: layer stack                                                    *)
(***************************************************************************)
\* gdsfactory LayerLevel: the level occupies [zmin, zmin + thickness]
LayerLevel(layer, thickness, zmin, material, mesh_order) ==
    [layer |-> layer, thickness |-> thickness, zmin |-> zmin,
     material |-> material, mesh_order |-> mesh_order]

get_layer_stack(thickness_wg, thickness_nitride, zmin_heater, thickness_heater, zmin_metal, thickness_metal) ==
    [core |-> LayerLevel(LAYER.WG, thickness_wg, 0, "si", 1),
     nitride |-> LayerLevel(LAYER.NITRIDE, thickness_nitride, 0, "sin", 2),
     nitride_etch |-> LayerLevel(LAYER.NITRIDE_ETCH, thickness_nitride, 0, "sin", 1),
     heater |-> LayerLevel(LAYER.HEATER, thickness_heater, zmin_heater, "TiN", 1),
     metal |-> LayerLevel(LAYER.PAD, thickness_metal, zmin_metal + thickness_metal,
                          "Aluminum", 2)]

\* the defaults of get_layer_stack's parameters (tech.py:31-36)
default_layer_stack_args ==
    [thickness_wg |-> 220 * nm, thickness_nitride |-> 300 * nm,
     zmin_heater |-> 1100, thickness_heater |-> 700 * nm,
     zmin_metal |-> 1100, thickness_metal |-> 700 * nm]

(***************************************************************************)
(* tech.py: cross-sections                                                 *)
(***************************************************************************)
cladding_layers_rib == <<LAYER.SLAB>>

cladding_offsets_rib == <<5000>>

\* gf.cross_section.strip(**kw) as the dict the classifier reads: the main
\* section (layer, width) first, then one section per cladding layer, of
\* width + 2 * offset
strip(kw) ==
    LET cl == IF "cladding_layers" \in DOMAIN kw THEN kw.cladding_layers ELSE <<>>
        co == IF "cladding_offsets" \in DOMAIN kw THEN kw.cladding_offsets ELSE <<>>
    IN  [isstr |-> FALSE, str |-> "",
         sections |-> <<[layer |-> kw.layer, width |-> kw.width]>> \o
                      [i \in DOMAIN cl |->
                          [layer |-> cl[i], width |-> kw.width + 2 * co[i]]]]

xf_sc == partial("strip", [layer |-> LAYER.WG, width |-> 450])

\* partial(xf_sc, width=0.40): the new keywords are merged over xf_sc's
xf_so == Call(xf_sc, [width |-> 400])

xf_rc ==
    partial("strip", [layer |-> LAYER.WG, width |-> 450,
                      cladding_layers |-> cladding_layers_rib,
                      cladding_offsets |-> cladding_offsets_rib,
                      radius |-> 25000, radius_min |-> 25000])

xf_ro == Call(xf_rc, [width |-> 400])

xf_nc == partial("strip", [layer |-> LAYER.NITRIDE, width |-> 1200, radius |-> 25000])

xf_no == partial("strip", [layer |-> LAYER.NITRIDE, width |-> 950, radius |-> 25000])

xs_sc == strip(xf_sc.kw)

xs_rc == strip(xf_rc.kw)

xs_so == strip(xf_so.kw)

xs_ro == strip(xf_ro.kw)

xs_nc == strip(xf_nc.kw)

xs_no == strip(xf_no.kw)

\* the module's cross-sections by name (tech.py:147-152)
cross_sections ==
    [xs_sc |-> xs_sc, xs_rc |-> xs_rc, xs_so |-> xs_so,
     xs_ro |-> xs_ro, xs_nc |-> xs_nc, xs_no |-> xs_no]

(***************************************************************************)
(* Inputs of the calls                                                     *)
(***************************************************************************)
\* the sequences over S of length lo .. hi
SeqsOf(S, lo, hi) == UNION {[1..n -> S] : n \in lo..hi}

\* first sections: the layers of the map that carry waveguides or sit next to
\* them, a layer sharing only WG's number, and the widths the classifier knows
\* plus one it does not
FirstSections ==
    [layer : {LAYER.WG, <<3, 1>>, LAYER.SLAB, LAYER.HEATER, LAYER.NITRIDE,
              LAYER.NITRIDE_ETCH},
     width : {400, 450, 500, 950, 1200}]

\* further sections: the rib claddings of tech.py and a heater strip
MoreSections ==
    {[layer |-> LAYER.SLAB, width |-> 10450], [layer |-> LAYER.SLAB, width |-> 10400],
     [layer |-> LAYER.HEATER, width |-> 2500]}

CrossSectionDicts ==
    {[isstr |-> FALSE, str |-> "", sections |-> <<f>> \o rest] :
        f \in FirstSections, rest \in SeqsOf(MoreSections, 0, MaxSections - 1)}
    \cup {cross_sections[n] : n \in DOMAIN cross_sections}

CrossSectionNames == {"xs_sc", "xs_so", "xs_rc", "xs_ro", "xs_nc", "xs_no"}

CrossSectionStrs ==
    {[isstr |-> TRUE, str |-> n, sections |-> <<>>] :
        n \in CrossSectionNames \cup
              {"xs_sc_heater_metal", "xs_metal_routing", "xs_heater_metal", "strip"}}

CrossSectionArgs == CrossSectionDicts \cup CrossSectionStrs

WlValues == {1310, 1500, 1550}

WlArrays == SeqsOf(WlValues, 1, MaxWlLen)

Ports == {"o1", "o2", "o3", "o4"}

CatalogKeys ==
    DOMAIN models \cup {"crossing_ro", "crossing_nc", "crossing_no", "mzi_sc"}

LayerStackArgs ==
    [thickness_wg : {220, 340}, thickness_nitride : {300, 400},
     zmin_heater : {1100, 1500}, thickness_heater : {700, 1000},
     zmin_metal : {0, 1100, 1800}, thickness_metal : {700, 2000}]

(***************************************************************************)
(* The state machine: one action per call into the package.  The functions *)
(* are pure and keep nothing between calls: a call is made on the imported *)
(* module (pc = "import"); pc then names the function called, args its     *)
(* arguments and ret what it returned or raised, until the caller takes    *)
(* the result (Done).                                                      *)
(***************************************************************************)
Init ==
    /\ pc = "import"
    /\ args = <<>>
    /\ ret = Return(<<>>)

Call_check_cross_section ==
    \E cs \in CrossSectionArgs :
        /\ pc = "import"
        /\ pc' = "_check_cross_section"
        /\ args' = [cross_section |-> cs]
        /\ ret' = _check_cross_section(cs)

Call_straight ==
    \E cs \in CrossSectionArgs, wl \in WlValues, length \in {0, 10000},
       loss \in {0, 1000} :
        /\ pc = "import"
        /\ pc' = "_straight"
        /\ args' = [wl |-> wl, length |-> length, loss |-> loss, cross_section |-> cs]
        /\ ret' = _straight(wl, length, loss, cs)

Call_2port ==
    \E p1, p2 \in Ports, wl \in WlArrays :
        /\ Cardinality({p1, p2}) = 2
        /\ pc = "import"
        /\ pc' = "_2port"
        /\ args' = [ports |-> <<p1, p2>>, wl |-> wl]
        /\ ret' = Return(_2port(p1, p2, wl))

Call_3port ==
    \E p1, p2, p3 \in Ports, wl \in WlArrays :
        /\ Cardinality({p1, p2, p3}) = 3
        /\ pc = "import"
        /\ pc' = "_3port"
        /\ args' = [ports |-> <<p1, p2, p3>>, wl |-> wl]
        /\ ret' = Return(_3port(p1, p2, p3, wl))

Call_4port ==
    \E p1, p2, p3, p4 \in Ports, wl \in WlArrays :
        /\ Cardinality({p1, p2, p3, p4}) = 4
        /\ pc = "import"
        /\ pc' = "_4port"
        /\ args' = [ports |-> <<p1, p2, p3, p4>>, wl |-> wl]
        /\ ret' = Return(_4port(p1, p2, p3, p4, wl))

Call_crossing ==
    \E wl \in WlArrays :
        /\ pc = "import"
        /\ pc' = "_crossing"
        /\ args' = [ports |-> <<"o1", "o2", "o3", "o4">>, wl |-> wl]
        /\ ret' = Return(_crossing(wl))

Call_models_getitem ==
    \E key \in CatalogKeys :
        /\ pc = "import"
        /\ pc' = "models"
        /\ args' = [key |-> key]
        /\ ret' = getitem(models, key)

Call_get_layer_stack ==
    \E a \in LayerStackArgs \cup {default_layer_stack_args} :
        /\ pc = "import"
        /\ pc' = "get_layer_stack"
        /\ args' = a
        /\ ret' = Return(get_layer_stack(a.thickness_wg, a.thickness_nitride,
                                         a.zmin_heater, a.thickness_heater,
                                         a.zmin_metal, a.thickness_metal))

Done ==
    /\ pc # "import"
    /\ pc' = "import"
    /\ args' = <<>>
    /\ ret' = Return(<<>>)

Next ==
    \/ Call_check_cross_section
    \/ Call_straight
    \/ Call_2port
    \/ Call_3port
    \/ Call_4port
    \/ Call_crossing
    \/ Call_models_getitem
    \/ Call_get_layer_stack
    \/ Done

Spec == Init /\ [][Next]_vars

(***************************************************************************)
(* Helpers of the properties                                               *)
(***************************************************************************)
CrossSectionTypes == {"sc", "so", "rc", "ro", "nc", "no"}

Families == {"straight", "bend", "mmi1x2", "mmi2x2", "gc_rectangular"}

RequiredKeys ==
    {f \o "_" \o x : f \in Families, x \in CrossSectionTypes}
    \cup {"crossing_sc", "crossing_so", "crossing_rc"}

\* the functions a catalog entry may stand for: the four external models, the
\* pass-through factories' closures, the crossing and the dispatcher
DefinedModels ==
    {"straight", "bend", "coupler", "grating_coupler", "_2port", "_3port",
     "_4port", "_crossing", "_straight"}

\* the centre wavelength of the band a cross-section type's last letter names
BandCentre(x) == IF x \in {"sc", "rc", "nc"} THEN 1550 ELSE 1310

PassThrus == {"_2port", "_3port", "_4port", "_crossing"}

\* rationals as <<numerator, denominator>>, denominator > 0
RatAdd(a, b) == <<a[1] * b[2] + b[1] * a[2], a[2] * b[2]>>

RatEq(a, b) == a[1] * b[2] = b[1] * a[2]

\* |z|^2 of z = (re + i im) / sqrt(2)^h
Abs2(z) == <<z.re * z.re + z.im * z.im, 2 ^ z.h>>

RECURSIVE PowerTo(_, _, _, _)
\* the sum over the ports q of outs of |S[p, q][i]|^2, an absent entry being 0
PowerTo(S, p, outs, i) ==
    IF outs = {} THEN <<0, 1>>
    ELSE LET q == CHOOSE x \in outs : TRUE
             rest == PowerTo(S, p, outs \ {q}, i)
         IN  IF <<p, q>> \in DOMAIN S THEN RatAdd(Abs2(S[<<p, q>>][i]), rest)
             ELSE rest

\* the power leaving the model when port p is the input, at wavelength i
PowerFrom(S, ports, p, i) ==
    PowerTo(S, p, {ports[k] : k \in DOMAIN ports} \ {p}, i)

\* a set of pairs with their reverses
WithReverses(pairs) == pairs \cup {<<q[2], q[1]>> : q \in pairs}

\* the pairs each pass-through model lists, for its port names p
ListedPairs(model, p) ==
    CASE model = "_2port" -> {<<p[1], p[2]>>}
      [] model = "_3port" -> {<<p[1], p[2]>>, <<p[1], p[3]>>}
      [] model = "_4port" -> {<<p[1], p[4]>>, <<p[2], p[3]>>, <<p[1], p[3]>>,
                              <<p[2], p[4]>>}
      [] model = "_crossing" -> {<<"o1", "o3">>, <<"o2", "o4">>}

\* z-intervals [a.zmin, a.zmin + a.thickness] and [b.zmin, ...] share more than
\* a boundary
Overlap(a, b) ==
    /\ a.zmin < b.zmin + b.thickness
    /\ b.zmin < a.zmin + a.thickness

(***************************************************************************)
(* Properties                                                              *)
(***************************************************************************)

\* C1: the catalog has an entry for each of straight_X, bend_X, mmi1x2_X,
\* mmi2x2_X and gc_rectangular_X for the six cross-section types X, and for
\* crossing_sc, crossing_so and crossing_rc; every key maps to a defined
\* model, so looking any of these keys up returns a model and never raises.
C1_CatalogComplete ==
    /\ RequiredKeys \subseteq DOMAIN models
    /\ \A k \in DOMAIN models : models[k].fn \in DefinedModels
    /\ (pc = "models" /\ args.key \in RequiredKeys) =>
            /\ ret.kind = "return"
            /\ ret.val.fn \in DefinedModels

C1_Witness ==
    /\ pc = "models"
    /\ args.key = "crossing_rc"
    /\ ret.kind = "return"
    /\ ret.val = crossing_rc

\* C2: for a dict, the classifier names the type from the first section: WG
\* with one section gives xs_sc (0.45) or xs_so (0.40); WG with more sections
\* gives xs_rc (0.45) or xs_ro (0.40); NITRIDE gives xs_nc (1.20) or xs_no
\* (0.95).  Each of the six cross-sections of tech.py, of which the rib ones
\* carry a SLAB cladding section and the strip ones none, gets its own name.
C2_ClassifiesByFirstSection ==
    /\ \A n \in {"xs_rc", "xs_ro"} :
            /\ Len(cross_sections[n].sections) = 2
            /\ cross_sections[n].sections[2].layer = LAYER.SLAB
    /\ \A n \in {"xs_sc", "xs_so", "xs_nc", "xs_no"} :
            Len(cross_sections[n].sections) = 1
    /\ (pc = "_check_cross_section" /\ ~args.cross_section.isstr) =>
        LET sections == args.cross_section.sections
            layer == sections[1].layer
            width == sections[1].width
        IN  /\ (layer = LAYER.WG /\ Len(sections) = 1 /\ width = 450)
                    => ret = Return("xs_sc")
            /\ (layer = LAYER.WG /\ Len(sections) = 1 /\ width = 400)
                    => ret = Return("xs_so")
            /\ (layer = LAYER.WG /\ Len(sections) > 1 /\ width = 450)
                    => ret = Return("xs_rc")
            /\ (layer = LAYER.WG /\ Len(sections) > 1 /\ width = 400)
                    => ret = Return("xs_ro")
            /\ (layer = LAYER.NITRIDE /\ width = 1200) => ret = Return("xs_nc")
            /\ (layer = LAYER.NITRIDE /\ width = 950) => ret = Return("xs_no")
            /\ \A n \in DOMAIN cross_sections :
                    args.cross_section = cross_sections[n] => ret = Return(n)

C2_Witness ==
    /\ pc = "_check_cross_section"
    /\ args.cross_section = xs_so
    /\ ret = Return("xs_so")

\* C3: straight_X and gc_rectangular_X use wl0 = 1.55 when X ends in c and
\* wl0 = 1.31 when X ends in o; the six straight models use neff = 2.4 and
\* ng = 4.2, the six grating couplers loss = 6 and bandwidth = 35 nm = 0.035.
\* This is what the catalog hands out under these keys, and what a call of
\* _straight with the name xs_X passes on to the external straight model.
C3_BandConfiguration ==
    /\ 35 * nm = 35
    /\ \A x \in CrossSectionTypes :
        /\ (pc = "models" /\ args.key = "straight_" \o x) =>
                ret = Return(partial("straight",
                        [wl0 |-> BandCentre(x), neff |-> 2400, ng |-> 4200]))
        /\ (pc = "models" /\ args.key = "gc_rectangular_" \o x) =>
                ret = Return(partial("grating_coupler",
                        [loss |-> 6000, bandwidth |-> 35 * nm,
                         wl0 |-> BandCentre(x)]))
        /\ (pc = "_straight" /\ args.cross_section.isstr
                /\ args.cross_section.str = "xs_" \o x) =>
                /\ ret.kind = "return"
                /\ ret.val.fn = "straight"
                /\ ret.val.kw.wl0 = BandCentre(x)
                /\ ret.val.kw.neff = 2400
                /\ ret.val.kw.ng = 4200

C3_Witness ==
    /\ pc = "_straight"
    /\ args.cross_section.isstr
    /\ args.cross_section.str = "xs_so"
    /\ ret.kind = "return"
    /\ ret.val.kw.wl0 = 1310

\* C4 (as claimed): the heater level occupies [zmin_heater, zmin_heater +
\* thickness_heater], the metal level starts at zmin_metal + thickness_metal,
\* for every choice of arguments the two levels do not overlap in z, and with
\* the defaults the metal level starts where the heater level ends.
C4_HeaterMetalDisjoint ==
    pc = "get_layer_stack" =>
        LET stack == ret.val
        IN  /\ stack.heater.zmin = args.zmin_heater
            /\ stack.heater.thickness = args.thickness_heater
            /\ stack.metal.zmin = args.zmin_metal + args.thickness_metal
            /\ ~Overlap(stack.heater, stack.metal)
            /\ args = default_layer_stack_args =>
                    stack.metal.zmin = stack.heater.zmin + stack.heater.thickness

\* C4, the part the code satisfies: the placement of the two levels and the
\* defaults' stacking, without the claim that no arguments make them overlap.
C4_PlacementAsWritten ==
    pc = "get_layer_stack" =>
        LET stack == ret.val
        IN  /\ stack.heater.zmin = args.zmin_heater
            /\ stack.heater.thickness = args.thickness_heater
            /\ stack.metal.zmin = args.zmin_metal + args.thickness_metal
            /\ args = default_layer_stack_args =>
                    /\ stack.metal.zmin = stack.heater.zmin + stack.heater.thickness
                    /\ ~Overlap(stack.heater, stack.metal)

\* C5: for a dict the classifier returns one of the six names or raises
\* ValueError("Unknown cross section ..."), and raises exactly when the first
\* section's layer is neither WG nor NITRIDE or its width is not one of the
\* widths of that layer (0.45, 0.40 for WG; 1.20, 0.95 for NITRIDE).
C5_ReturnsNameOrRaises ==
    (pc = "_check_cross_section" /\ ~args.cross_section.isstr) =>
        LET layer == args.cross_section.sections[1].layer
            width == args.cross_section.sections[1].width
            rejected ==
                \/ layer \notin {LAYER.WG, LAYER.NITRIDE}
                \/ layer = LAYER.WG /\ width \notin {450, 400}
                \/ layer = LAYER.NITRIDE /\ width \notin {1200, 950}
        IN  /\ \/ ret.kind = "return" /\ ret.val \in CrossSectionNames
               \/ ret = Raise("ValueError", "Unknown cross section")
            /\ ret.kind = "raise" <=> rejected

C5_Witness ==
    /\ pc = "_check_cross_section"
    /\ ~args.cross_section.isstr
    /\ args.cross_section.sections[1] = [layer |-> <<3, 1>>, width |-> 450]
    /\ ret = Raise("ValueError", "Unknown cross section")

\* the straight model of a cross-section name
straight_of(name) ==
    CASE name = "xs_sc" -> straight_sc
      [] name = "xs_so" -> straight_so
      [] name = "xs_rc" -> straight_rc
      [] name = "xs_ro" -> straight_ro
      [] name = "xs_nc" -> straight_nc
      [] name = "xs_no" -> straight_no

\* what C6 asks of _straight for the arguments a and the result r
AgreesWithClassifier(a, r) ==
    LET c == _check_cross_section(a.cross_section)
    IN  IF c.kind = "return" /\ c.val \in CrossSectionNames
        THEN r = Return(Call(straight_of(c.val),
                             [wl |-> a.wl, length |-> a.length, loss |-> a.loss]))
        ELSE r = Raise("ValueError",
                       IF a.cross_section.isstr THEN "Invalid cross section"
                       ELSE "Unknown cross section")

\* C6 (as claimed): for every cross_section, a string or a dict, if the
\* classifier yields one of the six names xs_X then _straight returns
\* straight_X(wl, length, loss) with the arguments unchanged; otherwise it
\* raises ValueError: "Unknown cross section" for a dict the classifier
\* rejects, "Invalid cross section" for a string that is none of the names.
C6_StraightAgreesWithClassifier ==
    pc = "_straight" => AgreesWithClassifier(args, ret)

\* C6, the part the code satisfies: the agreement for string arguments.
C6_AgreesOnStrings ==
    (pc = "_straight" /\ args.cross_section.isstr) => AgreesWithClassifier(args, ret)

\* C7: the S-dictionary of a pass-through or crossing model has an entry for
\* (a, b) iff it has one for (b, a), with equal values; its keys are exactly
\* the listed pairs and their reverses; it has no reflection entry (a, a);
\* _4port has no p1-p2 or p3-p4 entry and _crossing none between o1 and o2
\* or o4.
C7_ReciprocalNoOtherCouplings ==
    pc \in PassThrus =>
        LET S == ret.val
            p == args.ports
        IN  /\ \A k \in DOMAIN S :
                    /\ <<k[2], k[1]>> \in DOMAIN S
                    /\ S[<<k[2], k[1]>>] = S[k]
                    /\ k[1] # k[2]
                    /\ DOMAIN S[k] = DOMAIN args.wl
            /\ DOMAIN S = WithReverses(ListedPairs(pc, p))
            /\ pc = "_4port" =>
                    DOMAIN S \cap WithReverses({<<p[1], p[2]>>, <<p[3], p[4]>>}) = {}
            /\ pc = "_crossing" =>
                    DOMAIN S \cap WithReverses({<<"o1", "o2">>, <<"o1", "o4">>}) = {}

C7_Witness ==
    /\ pc = "_4port"
    /\ args.ports = <<"o1", "o2", "o3", "o4">>
    /\ <<"o3", "o1">> \in DOMAIN ret.val
    /\ ret.val[<<"o3", "o1">>] = ret.val[<<"o1", "o3">>]
    /\ <<"o1", "o2">> \notin DOMAIN ret.val

\* C8 (as claimed): every pass-through and crossing model is lossless from
\* every port: with any port as the input, the squared magnitudes of the
\* entries to all other ports sum to 1, _3port's p2 and p3 included.
C8_LosslessFromEveryPort ==
    pc \in PassThrus =>
        \A k \in DOMAIN args.ports, i \in DOMAIN args.wl :
            RatEq(PowerFrom(ret.val, args.ports, args.ports[k], i), <<1, 1>>)

\* C8 (amended): _2port and _crossing transmit with squared magnitude 1;
\* _4port sends 1/2 to each of its two connected ports from every port, the
\* cross entries being i times the thru entries; _3port sends 1/2 from p1 to
\* each of p2 and p3.  The power leaving is 1 from every port except p2 and
\* p3 of _3port, from each of which it is 1/2 (the single entry back to p1).
C8_LosslessExcept3portOutputs ==
    pc \in PassThrus =>
        LET S == ret.val
            p == args.ports
        IN  \A i \in DOMAIN args.wl :
            /\ \A k \in DOMAIN p :
                    RatEq(PowerFrom(S, p, p[k], i),
                          IF pc = "_3port" /\ k \in {2, 3} THEN <<1, 2>> ELSE <<1, 1>>)
            /\ pc \in {"_2port", "_crossing"} =>
                    \A e \in DOMAIN S : RatEq(Abs2(S[e][i]), <<1, 1>>)
            /\ pc \in {"_3port", "_4port"} =>
                    \A e \in DOMAIN S : RatEq(Abs2(S[e][i]), <<1, 2>>)
            /\ pc = "_4port" =>
                    /\ S[<<p[1], p[3]>>] = mul_1j(S[<<p[1], p[4]>>])
                    /\ S[<<p[2], p[4]>>] = mul_1j(S[<<p[2], p[3]>>])

C8_Witness ==
    /\ pc = "_3port"
    /\ args.ports = <<"o1", "o2", "o3">>
    /\ RatEq(PowerFrom(ret.val, args.ports, "o2", 1), <<1, 2>>)
    /\ RatEq(PowerFrom(ret.val, args.ports, "o1", 1), <<1, 1>>)
====
